---------------------------- MODULE Spec2Model ----------------------------
(***************************************************************************)
(* The Tkinter calculator of model_10&11.py: the input buffer (var), the   *)
(* history and its list widget, and SafeEvaluator, which parses the buffer *)
(* with Python's expression grammar (ast.parse, mode "eval") and walks the *)
(* tree with a whitelist of node kinds.                                    *)
(*                                                                         *)
(* Text is a sequence of one-character strings.  Numbers are Python's:     *)
(* int, bool (a subclass of int), float and complex.  A float is an exact  *)
(* decimal n/d with d a power of ten of at most FracDigits digits, and a   *)
(* number's numerator is at most IntCap in magnitude; a result outside     *)
(* this format is reported as "beyond" and no property speaks about it.    *)
(* A complex value is kept without its parts.                              *)
(***************************************************************************)
EXTENDS Integers, Sequences, FiniteSets, TLC

VARIABLES
    var,            \* self.var: the text of the entry field
    history,        \* self.history: the recorded items
    history_list,   \* self.history_list: the items the Listbox shows
    dialog,         \* the messagebox the last handler showed, or NoDialog
    log,            \* every item ever recorded, in order (history variable)
    last_op,        \* the handler that ran last
    last_expr,      \* the text the last handler worked on
    result,         \* what eval returned or raised in the last handler
    typed,          \* how many texts the user has entered
    others          \* how many expressions other than Base were recorded

vars == <<var, history, history_list, dialog, log, last_op, last_expr, result,
          typed, others>>

----------------------------------------------------------------------------
(* Bounds of the model *)

IntCap == 100000

FracDigits == 3

MaxTyped == 3

MaxEvals == 1

HistTyped == 2

HistEvals == 52

----------------------------------------------------------------------------
(* Characters *)

DigitChars == <<"0", "1", "2", "3", "4", "5", "6", "7", "8", "9">>

Digits == {DigitChars[i] : i \in 1..10}

Letters == {"a", "T", "r", "u", "e", "j"}

IsDigit(c) == c \in Digits

IsLetter(c) == c \in Letters

DigitVal(c) == (CHOOSE i \in 1..10 : DigitChars[i] = c) - 1

Abs(x) == IF x < 0 THEN -x ELSE x

RECURSIVE Pow10(_)
Pow10(k) == IF k = 0 THEN 1 ELSE 10 * Pow10(k - 1)

Scale == Pow10(FracDigits)

RECURSIVE GCD(_, _)
GCD(a, b) == IF b = 0 THEN a ELSE GCD(b, a % b)

----------------------------------------------------------------------------
(* Python's numbers *)

IntV(n) == [k |-> "int", n |-> n, d |-> 1, nz |-> FALSE]

BoolV(b) == [k |-> "bool", n |-> IF b THEN 1 ELSE 0, d |-> 1, nz |-> FALSE]

FloatV(n, d, nz) == [k |-> "float", n |-> n, d |-> d, nz |-> (nz /\ n = 0)]

ComplexV == [k |-> "complex", n |-> 0, d |-> 1, nz |-> FALSE]

NoV == [k |-> "none", n |-> 0, d |-> 1, nz |-> FALSE]

\* A number literal outside the format.
BeyondV == [k |-> "beyond", n |-> 0, d |-> 1, nz |-> FALSE]

\* The outcome of an operation: a value, an exception, or outside the format.
Ok(v) == [st |-> "ok", v |-> v, exc |-> "", msg |-> ""]

Raise(e, m) == [st |-> "raise", v |-> NoV, exc |-> e, msg |-> m]

Beyond == [st |-> "beyond", v |-> NoV, exc |-> "", msg |-> ""]

\* isinstance(x, (int, float)): bool is a subclass of int.
IsIntOrFloat(v) == v.k \in {"int", "bool", "float"}

IsZero(v) == v.k \in {"int", "bool", "float"} /\ v.n = 0

IsNegative(v) == v.n < 0 \/ v.nz

IsIntegral(v) == v.d = 1

\* An int result, if it fits.
MkInt(n) == IF Abs(n) <= IntCap THEN Ok(IntV(n)) ELSE Beyond

\* The float n/d (d a power of ten) in lowest terms, if it fits.
RECURSIVE MkFloat(_, _, _)
MkFloat(n, d, nz) ==
    IF d > 1 /\ n % 10 = 0 THEN MkFloat(n \div 10, d \div 10, nz)
    ELSE IF d <= Scale /\ Abs(n) <= IntCap THEN Ok(FloatV(n, d, nz))
    ELSE Beyond

\* float(x) of an int or bool; a float is itself.
ToFloat(v) == FloatV(v.n, v.d, v.nz)

\* Whether the product a * b stays within the format's working range.
MulFits(a, b) == a = 0 \/ b = 0 \/ Abs(a) <= (IntCap * Scale) \div Abs(b)

MaxOf(a, b) == IF a >= b THEN a ELSE b

\* a % b with the sign of the divisor (Python's int.__mod__), b # 0.
PyMod(a, b) == IF b > 0 THEN a % b ELSE 0 - ((0 - a) % (0 - b))

BothInt(a, b) == a.k \in {"int", "bool"} /\ b.k \in {"int", "bool"}

HasComplex(a, b) == a.k = "complex" \/ b.k = "complex"

NegF(v) == FloatV(0 - v.n, v.d, ~v.nz)

AddF(a, b) ==
    LET D == MaxOf(a.d, b.d)
        s == a.n * (D \div a.d) + b.n * (D \div b.d)
    IN  MkFloat(s, D, a.nz /\ b.nz)

\* The float p / q for coprime p and q > 0, negative zero if nz: q must
\* divide a power of ten of at most FracDigits digits.
Decimal(p, q, k, nz) ==
    IF MulFits(p, Pow10(k) \div q)
    THEN MkFloat(p * (Pow10(k) \div q), Pow10(k), nz)
    ELSE Beyond

Reduced(p, q, nz) ==
    IF \E k \in 0..FracDigits : Pow10(k) % q = 0
    THEN Decimal(p, q, CHOOSE k \in 0..FracDigits :
                         /\ Pow10(k) % q = 0
                         /\ \A j \in 0..(k - 1) : Pow10(j) % q # 0, nz)
    ELSE Beyond

Fraction(num, den, g, nz) == Reduced(num \div g, den \div g, nz)

\* The exact quotient a / b of two floats, b # 0.
DivQ(a, b) ==
    Fraction((IF b.n < 0 THEN 0 - 1 ELSE 1) * a.n * b.d, a.d * Abs(b.n),
             GCD(Abs(a.n * b.d), a.d * Abs(b.n)), IsNegative(a) # IsNegative(b))

MulF(a, b) ==
    IF MulFits(a.n, b.n)
    THEN MkFloat(a.n * b.n, a.d * b.d, IsNegative(a) # IsNegative(b))
    ELSE Beyond

\* x ** e for an int e >= 0 by repeated multiplication from acc.
RECURSIVE IntPowAcc(_, _, _)
IntPowAcc(a, e, acc) ==
    IF e = 0 THEN MkInt(acc)
    ELSE IF Abs(acc) <= IntCap /\ MulFits(acc, a) THEN IntPowAcc(a, e - 1, acc * a)
    ELSE Beyond

IntPow(a, e) ==
    IF e = 0 THEN MkInt(1)
    ELSE IF a = 0 \/ a = 1 THEN MkInt(a)
    ELSE IF a = 0 - 1 THEN MkInt(IF e % 2 = 0 THEN 1 ELSE 0 - 1)
    ELSE IntPowAcc(a, e, 1)

RECURSIVE FloatPowAcc(_, _, _)
FloatPowAcc(x, e, acc) ==
    IF e = 0 THEN Ok(acc)
    ELSE LET r == MulF(acc, x)
         IN  IF r.st = "ok" THEN FloatPowAcc(x, e - 1, r.v) ELSE r

One == FloatV(1, 1, FALSE)

\* float_pow(x, y) of floatobject.c on the model's floats.
FloatPow(x, y) ==
    IF y.n = 0 THEN Ok(One)
    ELSE IF x.n = 0 THEN
        IF y.n < 0
        THEN Raise("ZeroDivisionError", "0.0 cannot be raised to a negative power")
        ELSE Ok(FloatV(0, 1, x.nz /\ IsIntegral(y) /\ y.n % 2 = 1))
    ELSE IF x = One THEN Ok(One)
    ELSE IF ~IsIntegral(y) THEN
        IF x.n < 0 THEN Ok(ComplexV) ELSE Beyond
    ELSE IF x.n = 0 - 1 /\ x.d = 1 THEN
        Ok(FloatV(IF y.n % 2 = 0 THEN 1 ELSE 0 - 1, 1, FALSE))
    ELSE IF y.n > 0 THEN FloatPowAcc(x, y.n, One)
    ELSE LET p == FloatPowAcc(x, 0 - y.n, One)
         IN  IF p.st = "ok" THEN DivQ(One, p.v) ELSE p

----------------------------------------------------------------------------
(* The operator module's functions of the dispatch tables *)

add(a, b) ==
    IF HasComplex(a, b) THEN Beyond
    ELSE IF BothInt(a, b) THEN MkInt(a.n + b.n)
    ELSE AddF(ToFloat(a), ToFloat(b))

sub(a, b) ==
    IF HasComplex(a, b) THEN Beyond
    ELSE IF BothInt(a, b) THEN MkInt(a.n - b.n)
    ELSE AddF(ToFloat(a), NegF(ToFloat(b)))

mul(a, b) ==
    IF HasComplex(a, b) THEN Beyond
    ELSE IF BothInt(a, b) THEN (IF MulFits(a.n, b.n) THEN MkInt(a.n * b.n) ELSE Beyond)
    ELSE MulF(ToFloat(a), ToFloat(b))

\* A variant of truediv that floors the quotient of two ints, as // does.
truediv_floored(a, b) ==
    IF IsZero(b) THEN Raise("ZeroDivisionError", "division by zero")
    ELSE IF HasComplex(a, b) THEN Beyond
    ELSE IF BothInt(a, b)
    THEN MkFloat(((IF b.n < 0 THEN 0 - 1 ELSE 1) * (a.n - PyMod(a.n, b.n)))
                     \div Abs(b.n), 1, FALSE)
    ELSE DivQ(ToFloat(a), ToFloat(b))

truediv(a, b) ==
    IF IsZero(b) THEN
        Raise("ZeroDivisionError",
              IF HasComplex(a, b) THEN "complex division by zero"
              ELSE IF BothInt(a, b) THEN "division by zero"
              ELSE "float division by zero")
    ELSE IF HasComplex(a, b) THEN Beyond
    ELSE DivQ(ToFloat(a), ToFloat(b))

mod(a, b) ==
    IF HasComplex(a, b) THEN
        Raise("TypeError", "unsupported operand type(s) for %")
    ELSE IF IsZero(b) THEN
        Raise("ZeroDivisionError",
              IF BothInt(a, b) THEN "integer modulo by zero" ELSE "float modulo")
    ELSE IF BothInt(a, b) THEN MkInt(PyMod(a.n, b.n))
    ELSE LET D == MaxOf(a.d, b.d)
             A == a.n * (D \div a.d)
             B == b.n * (D \div b.d)
         IN  MkFloat(PyMod(A, B), D, IsNegative(b))

pow(a, b) ==
    IF HasComplex(a, b) THEN Beyond
    ELSE IF BothInt(a, b) THEN
        IF b.n >= 0 THEN IntPow(a.n, b.n)
        ELSE FloatPow(ToFloat(a), ToFloat(b))
    ELSE FloatPow(ToFloat(a), ToFloat(b))

pos(a) ==
    IF a.k = "bool" THEN Ok(IntV(a.n)) ELSE Ok(a)

neg(a) ==
    IF a.k \in {"int", "bool"} THEN MkInt(0 - a.n)
    ELSE IF a.k = "float" THEN Ok(NegF(a))
    ELSE Ok(a)

\* _bin_ops: the binary operators SafeEvaluator knows.
BinOpKinds == {"Add", "Sub", "Mult", "Div", "Mod", "Pow"}

_bin_ops(op, a, b) ==
    CASE op = "Add" -> add(a, b)
      [] op = "Sub" -> sub(a, b)
      [] op = "Mult" -> mul(a, b)
      [] op = "Div" -> truediv(a, b)
      [] op = "Mod" -> mod(a, b)
      [] op = "Pow" -> pow(a, b)

\* _unary_ops: the unary operators SafeEvaluator knows.
UnaryOpKinds == {"UAdd", "USub"}

_unary_ops(op, a) ==
    CASE op = "UAdd" -> pos(a)
      [] op = "USub" -> neg(a)

----------------------------------------------------------------------------
(* str(x): Python's rendering of a number *)

RECURSIVE DigitsOf(_)
DigitsOf(n) ==
    IF n < 10 THEN <<DigitChars[n + 1]>>
    ELSE DigitsOf(n \div 10) \o <<DigitChars[(n % 10) + 1]>>

\* The k low decimal digits of m, zero padded.
RECURSIVE PadDigits(_, _)
PadDigits(m, k) ==
    IF k = 0 THEN <<>>
    ELSE PadDigits(m \div 10, k - 1) \o <<DigitChars[(m % 10) + 1]>>

RECURSIVE Log10(_)
Log10(d) == IF d = 1 THEN 0 ELSE 1 + Log10(d \div 10)

\* The parts of a complex are not kept: the text has str's shape, (re+imj).
ComplexText == <<"(", "1", "+", "1", "j", ")">>

Str(v) ==
    CASE v.k = "int" ->
            (IF v.n < 0 THEN <<"-">> ELSE <<>>) \o DigitsOf(Abs(v.n))
      [] v.k = "bool" ->
            IF v.n = 1 THEN <<"T", "r", "u", "e">> ELSE <<"F", "a", "l", "s", "e">>
      [] v.k = "float" ->
            (IF IsNegative(v) THEN <<"-">> ELSE <<>>)
                \o DigitsOf(Abs(v.n) \div v.d) \o <<".">>
                \o (IF v.d = 1 THEN <<"0">> ELSE PadDigits(Abs(v.n) % v.d, Log10(v.d)))
      [] v.k = "complex" -> ComplexText

----------------------------------------------------------------------------
(* Python's tokenizer on the characters of the model *)

Token(t, s, v) == [t |-> t, s |-> s, v |-> v]

\* The first index from i on whose character is not a digit.
RECURSIVE DigitRunEnd(_, _)
DigitRunEnd(s, i) ==
    IF i <= Len(s) /\ IsDigit(s[i]) THEN DigitRunEnd(s, i + 1) ELSE i

\* The first index from i on whose character is neither a letter nor a digit.
RECURSIVE NameRunEnd(_, _)
NameRunEnd(s, i) ==
    IF i <= Len(s) /\ (IsLetter(s[i]) \/ IsDigit(s[i])) THEN NameRunEnd(s, i + 1) ELSE i

\* The value of the digits s[i..j-1], or IntCap + 1 once it passes IntCap.
RECURSIVE DigitsVal(_, _, _, _)
DigitsVal(s, i, j, acc) ==
    IF i >= j THEN acc
    ELSE IF acc > IntCap THEN IntCap + 1
    ELSE DigitsVal(s, i + 1, j, acc * 10 + DigitVal(s[i]))

AllZeros(s, i, j) == \A m \in i..(j - 1) : s[m] = "0"

CharAt(s, i) == IF i <= Len(s) THEN s[i] ELSE ""

Scanned(tok, next) == [tok |-> tok, next |-> next]

ErrorToken == Token("ERRORTOKEN", <<>>, NoV)

\* The literal s[i..end-1] read as a number: its integer digits end before ie,
\* its fraction is s[fs..fe-1], hasPoint, hasExp and hasJ tell its parts.
NumberToken(s, i, ie, fs, fe, hasPoint, hasExp, hasJ, end) ==
    IF IsLetter(CharAt(s, end)) \/ IsDigit(CharAt(s, end)) THEN ErrorToken
    ELSE IF hasJ THEN Token("NUMBER", <<>>, ComplexV)
    ELSE IF hasExp THEN Token("NUMBER", <<>>, BeyondV)
    ELSE IF ~hasPoint THEN
        IF ie - i > 1 /\ s[i] = "0" /\ ~AllZeros(s, i, ie) THEN ErrorToken
        ELSE IF DigitsVal(s, i, ie, 0) > IntCap THEN Token("NUMBER", <<>>, BeyondV)
        ELSE Token("NUMBER", <<>>, IntV(DigitsVal(s, i, ie, 0)))
    ELSE IF DigitsVal(s, i, ie, 0) > IntCap \/ DigitsVal(s, fs, fe, 0) > IntCap
            \/ fe - fs > FracDigits + 1
            \/ ~MulFits(DigitsVal(s, i, ie, 0), Pow10(fe - fs))
        THEN Token("NUMBER", <<>>, BeyondV)
    ELSE IF MkFloat(DigitsVal(s, i, ie, 0) * Pow10(fe - fs) + DigitsVal(s, fs, fe, 0),
                    Pow10(fe - fs), FALSE).st = "ok"
        THEN Token("NUMBER", <<>>,
                   MkFloat(DigitsVal(s, i, ie, 0) * Pow10(fe - fs) + DigitsVal(s, fs, fe, 0),
                           Pow10(fe - fs), FALSE).v)
    ELSE Token("NUMBER", <<>>, BeyondV)

\* After the exponent, which ends before xe: an optional j.
ScanSuffix(s, i, ie, fs, fe, hasPoint, hasExp, xe) ==
    IF CharAt(s, xe) = "j"
    THEN Scanned(NumberToken(s, i, ie, fs, fe, hasPoint, hasExp, TRUE, xe + 1), xe + 1)
    ELSE Scanned(NumberToken(s, i, ie, fs, fe, hasPoint, hasExp, FALSE, xe), xe)

\* After the fraction, which ends before fe: an optional exponent e[+-]digits.
ScanExponent(s, i, ie, fs, fe, hasPoint) ==
    IF CharAt(s, fe) = "e" /\ IsDigit(CharAt(s, fe + 1))
    THEN ScanSuffix(s, i, ie, fs, fe, hasPoint, TRUE, DigitRunEnd(s, fe + 1))
    ELSE IF CharAt(s, fe) = "e" /\ CharAt(s, fe + 1) \in {"+", "-"}
            /\ IsDigit(CharAt(s, fe + 2))
    THEN ScanSuffix(s, i, ie, fs, fe, hasPoint, TRUE, DigitRunEnd(s, fe + 2))
    ELSE ScanSuffix(s, i, ie, fs, fe, hasPoint, FALSE, fe)

\* After the integer digits, which end before ie: an optional point and
\* fraction digits.
ScanFraction(s, i, ie) ==
    IF CharAt(s, ie) = "."
    THEN ScanExponent(s, i, ie, ie + 1, DigitRunEnd(s, ie + 1), TRUE)
    ELSE ScanExponent(s, i, ie, ie, ie, FALSE)

\* A NUMBER token starting at i (a digit, or a point before a digit): the
\* token and the index after it.
ScanNumber(s, i) == ScanFraction(s, i, DigitRunEnd(s, i))

TwoCharOps == {<<"*", "*">>, <<"/", "/">>, <<"=", "=">>}

OneCharOps == {"+", "-", "*", "/", "%", "(", ")", ".", "="}

\* The tokens of s from index i on.  Leading white space is an indentation
\* error, a # starts a comment that runs to the end, and an ERRORTOKEN ends
\* the sequence.
RECURSIVE Tokens(_, _)

\* The scanned token, then the tokens after it.
AfterNumber(s, r) ==
    IF r.tok.t = "ERRORTOKEN" THEN <<r.tok>> ELSE <<r.tok>> \o Tokens(s, r.next)

AfterName(s, i, e) == <<Token("NAME", SubSeq(s, i, e - 1), NoV)>> \o Tokens(s, e)

Tokens(s, i) ==
    IF i > Len(s) THEN <<>>
    ELSE IF s[i] = " " THEN
        IF i = 1 THEN <<ErrorToken>> ELSE Tokens(s, i + 1)
    ELSE IF s[i] = "#" THEN <<>>
    ELSE IF IsDigit(s[i]) \/ (s[i] = "." /\ IsDigit(CharAt(s, i + 1))) THEN
        AfterNumber(s, ScanNumber(s, i))
    ELSE IF IsLetter(s[i]) THEN AfterName(s, i, NameRunEnd(s, i))
    ELSE IF i < Len(s) /\ <<s[i], s[i + 1]>> \in TwoCharOps THEN
        <<Token("OP", <<s[i], s[i + 1]>>, NoV)>> \o Tokens(s, i + 2)
    ELSE IF s[i] \in OneCharOps THEN
        <<Token("OP", <<s[i]>>, NoV)>> \o Tokens(s, i + 1)
    ELSE <<ErrorToken>>

Tokenize(s) == Tokens(s, 1)

----------------------------------------------------------------------------
(* ast.parse(expr, mode="eval"): Python's expression grammar on the tokens *)

BinOp(op, left, right) == [t |-> "BinOp", op |-> op, left |-> left, right |-> right]

UnaryOp(op, operand) == [t |-> "UnaryOp", op |-> op, operand |-> operand]

Constant(value) == [t |-> "Constant", value |-> value]

\* A node of any other kind; its children are never looked at.
OtherNode(kind) == [t |-> kind]

Parsed(node, p) == [st |-> "ok", node |-> node, p |-> p]

SyntaxError == [st |-> "err", node |-> OtherNode("none"), p |-> 0]

IsOp(ts, p, text) == p <= Len(ts) /\ ts[p].t = "OP" /\ ts[p].s = text

IsName(ts, p) == p <= Len(ts) /\ ts[p].t = "NAME"

TrueText == <<"T", "r", "u", "e">>

\* The AST operator class of an operator token.
OpKind(text) ==
    CASE text = <<"+">> -> "Add"
      [] text = <<"-">> -> "Sub"
      [] text = <<"*">> -> "Mult"
      [] text = <<"/">> -> "Div"
      [] text = <<"%">> -> "Mod"
      [] text = <<"/", "/">> -> "FloorDiv"
      [] text = <<"*", "*">> -> "Pow"

UnaryKind(text) == IF text = <<"+">> THEN "UAdd" ELSE "USub"

\* A variant of TermOps that gives binary + the precedence of *.
TermOps_with_plus == {<<"*">>, <<"/">>, <<"%">>, <<"/", "/">>, <<"+">>}

SumOps == {<<"+">>, <<"-">>}

TermOps == {<<"*">>, <<"/">>, <<"%">>, <<"/", "/">>}

\* One rule of the grammar applied at token p.  The rules call each other, so
\* they are the cases of one recursive operator; left is the operand parsed
\* so far in the rules that loop.
\*   expression: sum ('==' sum)*
\*   sum:        term (('+' | '-') term)*              grouping to the left
\*   term:       factor (('*' | '/' | '%' | '//') factor)*  grouping to the left
\*   factor:     ('+' | '-') factor | power
\*   power:      primary ['**' factor]
\*   primary:    atom trailer*
\*   trailer:    '(' [[NAME '='] expression] ')' | '.' NAME
\*   atom:       NUMBER | NAME | True | '(' expression ')' | '(' ')'
RECURSIVE Rule(_, _, _, _)
Rule(rule, ts, p, left) ==
    CASE rule = "atom" ->
            IF p > Len(ts) THEN SyntaxError
            ELSE IF ts[p].t = "NUMBER" THEN Parsed(Constant(ts[p].v), p + 1)
            ELSE IF ts[p].t = "NAME" THEN
                IF ts[p].s = TrueText THEN Parsed(Constant(BoolV(TRUE)), p + 1)
                ELSE Parsed(OtherNode("Name"), p + 1)
            ELSE IF IsOp(ts, p, <<"(">>) THEN
                IF IsOp(ts, p + 1, <<")">>) THEN Parsed(OtherNode("Tuple"), p + 2)
                ELSE LET e == Rule("expression", ts, p + 1, left)
                     IN  IF e.st = "ok" /\ IsOp(ts, e.p, <<")">>)
                         THEN Parsed(e.node, e.p + 1)
                         ELSE SyntaxError
            ELSE SyntaxError
      [] rule = "trailers" ->
            IF IsOp(ts, p, <<"(">>) THEN
                IF IsOp(ts, p + 1, <<")">>)
                THEN Rule("trailers", ts, p + 2, OtherNode("Call"))
                ELSE LET q == IF IsName(ts, p + 1) /\ ts[p + 1].s # TrueText
                                 /\ IsOp(ts, p + 2, <<"=">>)
                              THEN p + 3 ELSE p + 1
                         e == Rule("expression", ts, q, left)
                     IN  IF e.st = "ok" /\ IsOp(ts, e.p, <<")">>)
                         THEN Rule("trailers", ts, e.p + 1, OtherNode("Call"))
                         ELSE SyntaxError
            ELSE IF IsOp(ts, p, <<".">>) THEN
                IF IsName(ts, p + 1) /\ ts[p + 1].s # TrueText
                THEN Rule("trailers", ts, p + 2, OtherNode("Attribute"))
                ELSE SyntaxError
            ELSE Parsed(left, p)
      [] rule = "primary" ->
            LET a == Rule("atom", ts, p, left)
            IN  IF a.st = "ok" THEN Rule("trailers", ts, a.p, a.node) ELSE a
      [] rule = "power" ->
            LET b == Rule("primary", ts, p, left)
            IN  IF b.st # "ok" THEN b
                ELSE IF IsOp(ts, b.p, <<"*", "*">>) THEN
                    LET e == Rule("factor", ts, b.p + 1, left)
                    IN  IF e.st = "ok"
                        THEN Parsed(BinOp("Pow", b.node, e.node), e.p)
                        ELSE e
                ELSE b
      [] rule = "factor" ->
            IF p <= Len(ts) /\ ts[p].t = "OP" /\ ts[p].s \in SumOps THEN
                LET f == Rule("factor", ts, p + 1, left)
                IN  IF f.st = "ok"
                    THEN Parsed(UnaryOp(UnaryKind(ts[p].s), f.node), f.p)
                    ELSE f
            ELSE Rule("power", ts, p, left)
      [] rule = "term_rest" ->
            IF p <= Len(ts) /\ ts[p].t = "OP" /\ ts[p].s \in TermOps THEN
                LET r == Rule("factor", ts, p + 1, left)
                IN  IF r.st = "ok"
                    THEN Rule("term_rest", ts, r.p, BinOp(OpKind(ts[p].s), left, r.node))
                    ELSE r
            ELSE Parsed(left, p)
      [] rule = "term" ->
            LET f == Rule("factor", ts, p, left)
            IN  IF f.st = "ok" THEN Rule("term_rest", ts, f.p, f.node) ELSE f
      [] rule = "sum_rest" ->
            IF p <= Len(ts) /\ ts[p].t = "OP" /\ ts[p].s \in SumOps THEN
                LET r == Rule("term", ts, p + 1, left)
                IN  IF r.st = "ok"
                    THEN Rule("sum_rest", ts, r.p, BinOp(OpKind(ts[p].s), left, r.node))
                    ELSE r
            ELSE Parsed(left, p)
      [] rule = "sum" ->
            LET t == Rule("term", ts, p, left)
            IN  IF t.st = "ok" THEN Rule("sum_rest", ts, t.p, t.node) ELSE t
      [] rule = "compare_rest" ->
            IF IsOp(ts, p, <<"=", "=">>) THEN
                LET r == Rule("sum", ts, p + 1, left)
                IN  IF r.st = "ok" THEN Rule("compare_rest", ts, r.p, left) ELSE r
            ELSE Parsed(OtherNode("Compare"), p)
      [] rule = "expression" ->
            LET l == Rule("sum", ts, p, left)
            IN  IF l.st # "ok" THEN l
                ELSE IF IsOp(ts, l.p, <<"=", "=">>)
                THEN Rule("compare_rest", ts, l.p, left)
                ELSE l

ParseExpression(ts, p) == Rule("expression", ts, p, OtherNode("none"))

HasToken(ts, kind) == \E i \in 1..Len(ts) : ts[i].t = kind

\* The expression must use every token.
Whole(ts, e) == IF e.st = "ok" /\ e.p = Len(ts) + 1 THEN e ELSE SyntaxError

\* The tree of a whole token sequence, or SyntaxError.
parse(ts) ==
    IF ts = <<>> \/ HasToken(ts, "ERRORTOKEN") THEN SyntaxError
    ELSE Whole(ts, ParseExpression(ts, 1))

----------------------------------------------------------------------------
(* SafeEvaluator *)

\* A variant of _eval_node that applies no operator when the right operand
\* fails: the BinOp then is its left operand.
RECURSIVE _eval_node_left_only(_)
_eval_node_left_only(node) ==
    IF node.t = "BinOp" /\ node.op \in BinOpKinds THEN
        LET left == _eval_node_left_only(node.left)
        IN  IF left.st # "ok" THEN left
            ELSE LET right == _eval_node_left_only(node.right)
                 IN  IF right.st = "raise" THEN left
                     ELSE IF right.st # "ok" THEN right
                     ELSE _bin_ops(node.op, left.v, right.v)
    ELSE IF node.t = "UnaryOp" /\ node.op \in UnaryOpKinds THEN
        LET operand == _eval_node_left_only(node.operand)
        IN  IF operand.st # "ok" THEN operand
            ELSE _unary_ops(node.op, operand.v)
    ELSE IF node.t = "Constant" /\ node.value.k = "beyond" THEN Beyond
    ELSE IF node.t = "Constant" /\ IsIntOrFloat(node.value) THEN Ok(node.value)
    ELSE Raise("ValueError", "Unsupported expression")

RECURSIVE _eval_node(_)
_eval_node(node) ==
    IF node.t = "BinOp" /\ node.op \in BinOpKinds THEN
        LET left == _eval_node(node.left)
        IN  IF left.st # "ok" THEN left
            ELSE LET right == _eval_node(node.right)
                 IN  IF right.st # "ok" THEN right
                     ELSE _bin_ops(node.op, left.v, right.v)
    ELSE IF node.t = "UnaryOp" /\ node.op \in UnaryOpKinds THEN
        LET operand == _eval_node(node.operand)
        IN  IF operand.st # "ok" THEN operand
            ELSE _unary_ops(node.op, operand.v)
    ELSE IF node.t = "Constant" /\ node.value.k = "beyond" THEN Beyond
    ELSE IF node.t = "Constant" /\ IsIntOrFloat(node.value) THEN Ok(node.value)
    ELSE Raise("ValueError", "Unsupported expression")

\* A variant of Reraise with one handler: every exception becomes the
\* ZeroDivisionError.
Reraise_one_handler(r) ==
    IF r.st # "raise" THEN r
    ELSE Raise("ZeroDivisionError", "Division by zero is not allowed.")

\* The two handlers of eval: ZeroDivisionError keeps its kind and gets the
\* fixed message, every other exception becomes ValueError.
Reraise(r) ==
    IF r.st # "raise" THEN r
    ELSE IF r.exc = "ZeroDivisionError"
    THEN Raise("ZeroDivisionError", "Division by zero is not allowed.")
    ELSE Raise("ValueError", "Invalid expression")

\* The try block of eval on the parsed text.
Try(tree) ==
    IF tree.st # "ok" THEN Raise("SyntaxError", "invalid syntax")
    ELSE _eval_node(tree.node)

eval(expr) == Reraise(Try(parse(Tokenize(expr))))

----------------------------------------------------------------------------
(* CalculatorApp *)

NoDialog == [title |-> "", message |-> ""]

\* messagebox.showerror(title, message)
showerror(title, message) == [title |-> title, message |-> message]

\* The history keeps at most this many items.
HistoryCap == 50

\* str.strip(): the text without its leading and trailing white space.
RECURSIVE strip(_)
strip(s) ==
    IF s = <<>> THEN s
    ELSE IF Head(s) = " " THEN strip(Tail(s))
    ELSE IF s[Len(s)] = " " THEN strip(SubSeq(s, 1, Len(s) - 1))
    ELSE s

\* item.split("=")[0]: the text before the first "=".
RECURSIVE SplitFirst(_)
SplitFirst(s) ==
    IF s = <<>> \/ Head(s) = "=" THEN <<>>
    ELSE <<Head(s)>> \o SplitFirst(Tail(s))

\* f"{expr} = {result}"
FormatItem(expr, value) == expr \o <<" ", "=", " ">> \o Str(value)

\* A variant of _add_history that drops the newest item, not the oldest, once
\* the history is longer than HistoryCap.
_add_history_newest_dropped(hist, listbox, item) ==
    IF Len(hist) + 1 > HistoryCap
    THEN [history |-> hist, history_list |-> listbox]
    ELSE [history |-> Append(hist, item), history_list |-> Append(listbox, item)]

\* _add_history on the two lists: append to both, and drop the first of both
\* once the history is longer than HistoryCap.
_add_history(hist, listbox, item) ==
    LET h == Append(hist, item)
        l == Append(listbox, item)
    IN  IF Len(h) > HistoryCap
        THEN [history |-> Tail(h), history_list |-> Tail(l)]
        ELSE [history |-> h, history_list |-> l]

\* No outcome: the last handler was not an evaluation.
NoOutcome == [st |-> "none"]

Init ==
    /\ var = <<>>
    /\ history = <<>>
    /\ history_list = <<>>
    /\ dialog = NoDialog
    /\ log = <<>>
    /\ last_op = "init"
    /\ last_expr = <<>>
    /\ result = NoOutcome
    /\ typed = 0
    /\ others = 0

\* The bookkeeping of a handler: which one ran, on what text, and what eval
\* returned or raised in it.
Ran(op, text, outcome) ==
    /\ last_op' = op
    /\ last_expr' = text
    /\ result' = outcome

insert(s) ==
    /\ var' = var \o s
    /\ dialog' = NoDialog
    /\ Ran("insert", s, NoOutcome)
    /\ UNCHANGED <<history, history_list, log, others>>

clear_all ==
    /\ var' = <<>>
    /\ dialog' = NoDialog
    /\ Ran("clear_all", <<>>, NoOutcome)
    /\ UNCHANGED <<history, history_list, log, others, typed>>

clear_entry ==
    /\ var' = <<>>
    /\ dialog' = NoDialog
    /\ Ran("clear_entry", <<>>, NoOutcome)
    /\ UNCHANGED <<history, history_list, log, others, typed>>

backspace ==
    /\ var' = (IF var = <<>> THEN <<>> ELSE SubSeq(var, 1, Len(var) - 1))
    /\ dialog' = NoDialog
    /\ Ran("backspace", <<>>, NoOutcome)
    /\ UNCHANGED <<history, history_list, log, others, typed>>

\* The expression every workload may evaluate any number of times.
Base == <<"1">>

\* A variant of Evaluated that empties the field when eval raises.
Evaluated_clearing(expr, r) ==
    /\ Ran("evaluate", expr, r)
    /\ IF r.st = "ok" THEN
            /\ history' =
                   _add_history(history, history_list, FormatItem(expr, r.v)).history
            /\ history_list' =
                   _add_history(history, history_list, FormatItem(expr, r.v)).history_list
            /\ var' = Str(r.v)
            /\ dialog' = NoDialog
            /\ log' = Append(log, [expr |-> expr, value |-> r.v,
                                   item |-> FormatItem(expr, r.v)])
            /\ others' = (IF expr = Base THEN others ELSE others + 1)
       ELSE
            /\ r.st = "raise"
            /\ var' = <<>>
            /\ dialog' = showerror(IF r.exc = "ZeroDivisionError"
                                   THEN "Math Error" ELSE "Input Error", r.msg)
            /\ UNCHANGED <<history, history_list, log, others>>

\* evaluate once eval has returned or raised r for the stripped text expr.
Evaluated(expr, r) ==
    /\ Ran("evaluate", expr, r)
    /\ IF r.st = "ok" THEN
            /\ history' =
                   _add_history(history, history_list, FormatItem(expr, r.v)).history
            /\ history_list' =
                   _add_history(history, history_list, FormatItem(expr, r.v)).history_list
            /\ var' = Str(r.v)
            /\ dialog' = NoDialog
            /\ log' = Append(log, [expr |-> expr, value |-> r.v,
                                   item |-> FormatItem(expr, r.v)])
            /\ others' = (IF expr = Base THEN others ELSE others + 1)
       ELSE
            /\ r.st = "raise"
            /\ dialog' = showerror(IF r.exc = "ZeroDivisionError"
                                   THEN "Math Error" ELSE "Input Error", r.msg)
            /\ UNCHANGED <<var, history, history_list, log, others>>

evaluate ==
    /\ UNCHANGED typed
    /\ IF strip(var) = <<>> THEN
            /\ Ran("evaluate", <<>>, NoOutcome)
            /\ dialog' = NoDialog
            /\ UNCHANGED <<var, history, history_list, log, others>>
       ELSE Evaluated(strip(var), eval(strip(var)))

\* The entry of the log that index idx of the history shows.
Recorded(idx) == log[Len(log) - Len(history) + idx]

\* _on_history_select with the Listbox selection sel: empty, or one index.
_on_history_select(sel) ==
    /\ dialog' = NoDialog
    /\ UNCHANGED <<history, history_list, log, others, typed>>
    /\ IF sel = <<>> THEN
            /\ Ran("select_none", <<>>, NoOutcome)
            /\ UNCHANGED var
       ELSE /\ sel[1] <= Len(history)
            /\ Ran("select", Recorded(sel[1]).expr, NoOutcome)
            /\ var' = strip(SplitFirst(history[sel[1]]))

----------------------------------------------------------------------------
(* The user: texts entered into the field, keys and buttons pressed *)

\* The user enters one of the texts K, at most N texts in a session.
Type(K, N) ==
    \E s \in K : typed < N /\ insert(s) /\ typed' = typed + 1

\* The user presses "=" or Enter; at most E evaluations succeed in a session,
\* at most O of them of an expression other than Base.
Press(E, O) == evaluate /\ Len(log') <= E /\ others' <= O

\* The user clicks one of the first F or of the last F entries of the history
\* list, or the list loses its selection.
Select(F) ==
    \/ \E i \in 1..Len(history_list) :
          /\ i <= F \/ i > Len(history_list) - F
          /\ _on_history_select(<<i>>)
    \/ _on_history_select(<<>>)

Session(K, N, E, O, F) ==
    \/ Type(K, N)
    \/ Press(E, O)
    \/ clear_all
    \/ clear_entry
    \/ backspace
    \/ Select(F)

\* The calculator's own keys, and the space bar.
Keys == {<<"0">>, <<"1">>, <<"2">>, <<"+">>, <<"-">>, <<"*">>, <<"/">>, <<"%">>,
         <<"*", "*">>, <<"(">>, <<")">>, <<".">>, <<" ">>}

Next == Session(Keys, MaxTyped, MaxEvals, MaxEvals, MaxEvals)

Spec == Init /\ [][Next]_vars

----------------------------------------------------------------------------
(* Workloads *)

NamesTyped == 3

ComplexTyped == 3

ArithTyped == 4

PrecTyped == 3

\* Texts with names, a call, a comparison, a comment and white space, as the
\* keyboard can enter them into the field.
NameTexts == {<<"1">>, <<"a">>, <<"T", "r", "u", "e">>, <<"+">>, <<"1", "/", "0">>,
              <<"#">>, <<"=">>, <<"(">>, <<")">>, <<" ">>}

NextNames == Session(NameTexts, NamesTyped, 1, 1, 1)

SpecNames == Init /\ [][NextNames]_vars

\* Texts whose powers leave the real numbers.
ComplexTexts == {<<"1">>, <<"(", "-", "1", ")">>, <<"*", "*", ".", "5">>,
                 <<"%", "0">>, <<"/", "0">>, <<"*", "0">>}

NextComplex == Session(ComplexTexts, ComplexTyped, 1, 1, 1)

SpecComplex == Init /\ [][NextComplex]_vars

\* The digit and operator keys.
ArithKeys == {<<"0">>, <<"1">>, <<"2">>, <<"+">>, <<"-">>, <<"*">>, <<"/">>,
              <<"%">>, <<"*", "*">>}

NextArith == Session(ArithKeys, ArithTyped, 1, 1, 1)

SpecArith == Init /\ [][NextArith]_vars

\* Operands, and operators entered together with their right operand.
PrecTexts == {<<"2">>, <<"-">>, <<"+", "3">>, <<"-", "3">>, <<"*", "2">>,
              <<"/", "2">>, <<"%", "3">>, <<"*", "*", "2">>, <<"*", "*", "-", "2">>,
              <<"(", "2">>, <<"+", "3", ")">>}

NextPrec == Session(PrecTexts, PrecTyped, 1, 1, 1)

SpecPrec == Init /\ [][NextPrec]_vars

\* Many evaluations of Base and one of another expression, which may come at
\* any place among them.
NextHist == Session({<<"1">>, <<"2">>}, HistTyped, HistEvals, 1, 1)

SpecHist == Init /\ [][NextHist]_vars

----------------------------------------------------------------------------
(* What the last handler did, for the properties *)

\* The last handler was evaluate on a text that is not empty.
Evaluates == last_op = "evaluate" /\ result.st # "none"

\* The tokens and the tree of the text the last handler worked on.
LastTokens == Tokenize(last_expr)

LastTree == parse(LastTokens)

InvalidExpression == Raise("ValueError", "Invalid expression")

DivisionByZero == Raise("ZeroDivisionError", "Division by zero is not allowed.")

\* Every node of the tree is a BinaryOp over + - * / % **, a UnaryOp over
\* + -, or an integer or floating-point literal.
RECURSIVE Whitelisted(_)
Whitelisted(node) ==
    IF node.t = "BinOp"
    THEN node.op \in BinOpKinds /\ Whitelisted(node.left) /\ Whitelisted(node.right)
    ELSE IF node.t = "UnaryOp"
    THEN node.op \in UnaryOpKinds /\ Whitelisted(node.operand)
    ELSE node.t = "Constant" /\ node.value.k \in {"int", "float", "beyond"}

TextLeftZeroRightName == <<"1", "/", "0", "+", "a">>

----------------------------------------------------------------------------
(* C1: expressions with a node outside the whitelist *)

\* C1: whenever evaluate runs on a text whose syntax tree has a node that is
\* not a BinaryOp over + - * / % **, a UnaryOp over + - or an integer or
\* floating-point literal, eval raises ValueError("Invalid expression").
\* The text True refutes it: its tree is the named constant True, and eval
\* returns True.
C1_UnsupportedNodeIsInvalid ==
    (Evaluates /\ LastTree.st = "ok" /\ ~Whitelisted(LastTree.node))
        => result = InvalidExpression

----------------------------------------------------------------------------
(* C9: recalling an expression from the history *)

\* C9: after a click on an entry of the history list the field holds exactly
\* the expression that was evaluated to record the entry, and the history
\* is what it was.  The text 1#= refutes it: it evaluates to 1 (the
\* comment is no part of the expression), the entry is "1#= = 1", and the
\* click puts 1# into the field.
C9_SelectRestoresExpression ==
    last_op = "select" => var = last_expr

----------------------------------------------------------------------------
(* C10: the order of the operands *)

\* _eval_node with the right operand evaluated before the left.
RECURSIVE RightFirst(_)
RightFirst(node) ==
    IF node.t = "BinOp" /\ node.op \in BinOpKinds THEN
        LET right == RightFirst(node.right)
        IN  IF right.st # "ok" THEN right
            ELSE LET left == RightFirst(node.left)
                 IN  IF left.st # "ok" THEN left
                     ELSE _bin_ops(node.op, left.v, right.v)
    ELSE IF node.t = "UnaryOp" /\ node.op \in UnaryOpKinds THEN
        LET operand == RightFirst(node.operand)
        IN  IF operand.st # "ok" THEN operand
            ELSE _unary_ops(node.op, operand.v)
    ELSE IF node.t = "Constant" /\ node.value.k = "beyond" THEN Beyond
    ELSE IF node.t = "Constant" /\ IsIntOrFloat(node.value) THEN Ok(node.value)
    ELSE Raise("ValueError", "Unsupported expression")

\* Some BinaryOp of the tree has two operands that fail with different error
\* kinds.
RECURSIVE BothFailDifferently(_)
BothFailDifferently(node) ==
    IF node.t = "BinOp" /\ node.op \in BinOpKinds THEN
        \/ /\ Reraise(_eval_node(node.left)).st = "raise"
           /\ Reraise(_eval_node(node.right)).st = "raise"
           /\ Reraise(_eval_node(node.left)) # Reraise(_eval_node(node.right))
        \/ BothFailDifferently(node.left)
        \/ BothFailDifferently(node.right)
    ELSE IF node.t = "UnaryOp" /\ node.op \in UnaryOpKinds THEN
        BothFailDifferently(node.operand)
    ELSE FALSE

\* The text parses, and neither order leaves the number format.
OrdersComparable ==
    Evaluates /\ LastTree.st = "ok" /\ RightFirst(LastTree.node).st # "beyond"

\* C10 as the specification states it: the outcome of eval, value or error
\* kind, is that of an evaluator that evaluates the right operand first.
\* The text 1/0+a refutes it: the division fails first, and the name would.
C10_OrderUnobservable ==
    OrdersComparable => result = Reraise(RightFirst(LastTree.node))

\* C10, amended: the outcome of eval is that of an evaluator that evaluates
\* the right operand first, unless the two operands of some BinaryOp fail
\* with different error kinds; then eval reports the left operand's failure.
C10_OrderObservableOnlyInErrors ==
    OrdersComparable =>
        \/ result = Reraise(RightFirst(LastTree.node))
        \/ BothFailDifferently(LastTree.node)

\* C10: evaluate has run on 1/0+a and reported the division by zero of the
\* left operand.
C10_LeftFailureReported ==
    Evaluates /\ last_expr = TextLeftZeroRightName /\ result = DivisionByZero

----------------------------------------------------------------------------
(* C2, C3: the two error kinds *)

\* What an operator application must be to count: "div" is / or % with a
\* right operand that is zero, "pow" is ** of a zero base to a negative
\* exponent.
Culprit(what, op, l, r) ==
    IF what = "div" THEN op \in {"Div", "Mod"} /\ IsZero(r)
    ELSE op = "Pow" /\ IsZero(l) /\ IsNegative(r)

\* Evaluating the node applies such an operator: every operand evaluated
\* before the application has returned a value.
RECURSIVE Applies(_, _)
Applies(what, node) ==
    IF node.t = "BinOp" /\ node.op \in BinOpKinds THEN
        \/ Applies(what, node.left)
        \/ /\ _eval_node(node.left).st = "ok"
           /\ \/ Applies(what, node.right)
              \/ /\ _eval_node(node.right).st = "ok"
                 /\ Culprit(what, node.op, _eval_node(node.left).v,
                            _eval_node(node.right).v)
    ELSE IF node.t = "UnaryOp" /\ node.op \in UnaryOpKinds THEN
        Applies(what, node.operand)
    ELSE FALSE

TextZeroToMinusOne == <<"0", "*", "*", "-", "1">>

TextTwoToMinusOne == <<"2", "*", "*", "-", "1">>

\* C2: whenever evaluate runs on a text whose evaluation applies / or % to a
\* right operand that is zero, whatever the left operand, eval raises
\* ZeroDivisionError("Division by zero is not allowed.") and the dialog's
\* title is "Math Error".  The text (-1)**.5%0 refutes it: the left operand
\* is complex, % raises TypeError, and the dialog says "Input Error".
C2_ZeroDivisorIsMathError ==
    (Evaluates /\ LastTree.st = "ok" /\ Applies("div", LastTree.node))
        => (result = DivisionByZero /\ dialog.title = "Math Error")

----------------------------------------------------------------------------
(* C8: evaluating the displayed result *)

\* C8: for every value r that evaluate has recorded, eval on the text that
\* evaluate wrote into the field for it, str(r), returns r.  The text
\* (-1)**.5 refutes it: the result is complex, and its text has an
\* imaginary literal, which eval rejects.
C8_DisplayedResultEvaluatesToItself ==
    \A i \in 1..Len(log) : eval(strip(Str(log[i].value))) = Ok(log[i].value)

----------------------------------------------------------------------------
(* C6: the types of the results *)

\* The last evaluation was of a BinaryOp whose operands evaluate to integers,
\* and it returned a value.
IntOperands ==
    /\ Evaluates /\ result.st = "ok"
    /\ LastTree.st = "ok" /\ LastTree.node.t = "BinOp"
    /\ LastTree.node.op \in BinOpKinds
    /\ _eval_node(LastTree.node.left).st = "ok"
    /\ _eval_node(LastTree.node.left).v.k = "int"
    /\ _eval_node(LastTree.node.right).st = "ok"
    /\ _eval_node(LastTree.node.right).v.k = "int"

LeftInt == _eval_node(LastTree.node.left).v.n

RightInt == _eval_node(LastTree.node.right).v.n

\* base to the power e, e >= 0.
RECURSIVE Power(_, _)
Power(base, e) == IF e = 0 THEN 1 ELSE base * Power(base, e - 1)

\* The result is the float p/q exactly.
IsQuotient(p, q) ==
    result.v.k = "float" /\ q # 0 /\ result.v.n * q = p * result.v.d

IsInteger(n) == result.v.k = "int" /\ result.v.n = n

\* C6 as the specification states it: with integer operands + - * % and **
\* return an integer, and / returns the float that is the true quotient.
\* The text 2**-1 refutes it: the result is the float 0.5.
C6_IntegerOperationsStayInteger ==
    IntOperands =>
        IF LastTree.node.op = "Div" THEN IsQuotient(LeftInt, RightInt)
        ELSE result.v.k = "int"

\* C6, amended: with integer operands a and b, + - * and % return the
\* integer sum, difference, product and remainder (of the sign of b), **
\* returns the integer power when b >= 0 and the float 1/a**(-b) when b < 0,
\* and / returns the float that is the true quotient.
C6_IntegerUnlessNegativePower ==
    IntOperands =>
        CASE LastTree.node.op = "Add" -> IsInteger(LeftInt + RightInt)
          [] LastTree.node.op = "Sub" -> IsInteger(LeftInt - RightInt)
          [] LastTree.node.op = "Mult" -> IsInteger(LeftInt * RightInt)
          [] LastTree.node.op = "Mod" ->
                /\ result.v.k = "int"
                /\ (LeftInt - result.v.n) % Abs(RightInt) = 0
                /\ Abs(result.v.n) < Abs(RightInt)
                /\ result.v.n = 0 \/ (result.v.n < 0) = (RightInt < 0)
          [] LastTree.node.op = "Pow" ->
                IF RightInt >= 0 THEN IsInteger(Power(LeftInt, RightInt))
                ELSE IsQuotient(1, Power(LeftInt, 0 - RightInt))
          [] LastTree.node.op = "Div" -> IsQuotient(LeftInt, RightInt)

\* C6: evaluate has run on 2**-1 and returned the float 0.5.
C6_NegativePowerIsFloat ==
    /\ IntOperands /\ last_expr = TextTwoToMinusOne
    /\ result = Ok(FloatV(5, 10, FALSE))

----------------------------------------------------------------------------
(* C7: precedence and associativity *)

\* The parentheses open before token i, counted from token lo.
RECURSIVE Depth(_, _, _)
Depth(ts, lo, i) ==
    IF i <= lo THEN 0
    ELSE Depth(ts, lo, i - 1)
            + (IF IsOp(ts, i - 1, <<"(">>) THEN 1
               ELSE IF IsOp(ts, i - 1, <<")">>) THEN 0 - 1 ELSE 0)

\* Token i of ts[lo..hi] is one of the operators ops, outside every
\* parenthesis, with an operand ending just before it.
BinaryAt(ts, lo, hi, i, ops) ==
    /\ ts[i].t = "OP" /\ ts[i].s \in ops
    /\ Depth(ts, lo, i) = 0
    /\ i > lo
    /\ ts[i - 1].t = "NUMBER" \/ IsOp(ts, i - 1, <<")">>)

BinaryPlaces(ts, lo, hi, ops) == {i \in lo..hi : BinaryAt(ts, lo, hi, i, ops)}

Highest(S) == CHOOSE i \in S : \A j \in S : j <= i

Lowest(S) == CHOOSE i \in S : \A j \in S : i <= j

\* ts[lo..hi] is one parenthesis.
Enclosed(ts, lo, hi) ==
    /\ lo < hi /\ IsOp(ts, lo, <<"(">>) /\ IsOp(ts, hi, <<")">>)
    /\ \A i \in (lo + 1)..hi : Depth(ts, lo, i) > 0
    /\ Depth(ts, lo, hi + 1) = 0

GroupError == OtherNode("GroupError")

\* The tree of the tokens ts[lo..hi] by the precedence table, loosest first:
\* binary + - (the last one splits, so they group to the left), then * / %
\* (likewise), then ** (the first one splits, so it groups to the right) and
\* unary + -, then parentheses and numbers.  unaryTightest tells which of **
\* and unary + - is looked for first when a text starts with a sign: TRUE
\* splits at ** first, so the sign belongs to the base; FALSE takes the
\* sign off first, so it applies to the whole power.
RECURSIVE Group(_, _, _, _)
Group(ts, lo, hi, unaryTightest) ==
    LET sums == BinaryPlaces(ts, lo, hi, {<<"+">>, <<"-">>})
        terms == BinaryPlaces(ts, lo, hi, {<<"*">>, <<"/">>, <<"%">>})
        powers == BinaryPlaces(ts, lo, hi, {<<"*", "*">>})
        Split(i) == BinOp(OpKind(ts[i].s), Group(ts, lo, i - 1, unaryTightest),
                          Group(ts, i + 1, hi, unaryTightest))
        signed == ts[lo].t = "OP" /\ ts[lo].s \in {<<"+">>, <<"-">>}
        Sign == UnaryOp(UnaryKind(ts[lo].s), Group(ts, lo + 1, hi, unaryTightest))
    IN  IF lo > hi THEN GroupError
        ELSE IF sums # {} THEN Split(Highest(sums))
        ELSE IF terms # {} THEN Split(Highest(terms))
        ELSE IF signed /\ ~unaryTightest THEN Sign
        ELSE IF powers # {} THEN Split(Lowest(powers))
        ELSE IF signed THEN Sign
        ELSE IF Enclosed(ts, lo, hi) THEN Group(ts, lo + 1, hi - 1, unaryTightest)
        ELSE IF lo = hi /\ ts[lo].t = "NUMBER" THEN Constant(ts[lo].v)
        ELSE GroupError

\* The tree has no GroupError.
RECURSIVE Grouped(_)
Grouped(node) ==
    IF node.t = "BinOp" THEN Grouped(node.left) /\ Grouped(node.right)
    ELSE IF node.t = "UnaryOp" THEN Grouped(node.operand)
    ELSE node.t = "Constant"

\* The trees of the last text by the specification's table and by the
\* amended one.
StatedTree == Group(LastTokens, 1, Len(LastTokens), TRUE)

AmendedTree == Group(LastTokens, 1, Len(LastTokens), FALSE)

TextMinusTwoSquared == <<"-", "2", "*", "*", "2">>

\* C7 as the specification states it: eval on an arithmetic text returns what
\* the text's tree returns when unary + - bind tighter than ** on either
\* side.  The text -2**2 refutes it: eval returns -4, the table gives 4.
C7_UnaryTightest ==
    (Evaluates /\ Grouped(StatedTree)) => result = Reraise(_eval_node(StatedTree))

\* C7, amended: unary + - bind tighter than * / % and than a ** to their
\* left, but looser than a ** to their right (-a**b is -(a**b), a**-b is
\* a**(-b)); ** groups to the right, * / % and then binary + - group to the
\* left, parentheses override it.  eval builds exactly this tree for every
\* arithmetic text, and only for those.
C7_UnaryBelowPowerOnItsRight ==
    Evaluates =>
        /\ Grouped(AmendedTree) => LastTree = Parsed(AmendedTree, Len(LastTokens) + 1)
        /\ (LastTree.st = "ok" /\ Whitelisted(LastTree.node))
              => LastTree.node = AmendedTree
        /\ (LastTree.st = "ok" /\ Whitelisted(LastTree.node))
              => result = Reraise(_eval_node(AmendedTree))

\* C7: evaluate has run on -2**2 and returned -4.
C7_MinusTwoSquared ==
    Evaluates /\ last_expr = TextMinusTwoSquared /\ result = Ok(IntV(0 - 4))

----------------------------------------------------------------------------
(* C4: the bounded history *)

Min(a, b) == IF a < b THEN a ELSE b

\* The last n items that evaluate has recorded, oldest first.
LastItems(n) == [i \in 1..n |-> log[Len(log) - n + i].item]

\* C4: in every reachable state, after n successful evaluations among any
\* other handlers, the history holds the min(n, 50) most recent items
\* "<expression> = <result>" in the order of their evaluation, it has at
\* most 50 items, and the history list shows the same items at the same
\* indices.
C4_HistoryIsLastFifty ==
    /\ history = LastItems(Min(Len(log), HistoryCap))
    /\ Len(history) <= HistoryCap
    /\ history_list = history

\* C4: more than 50 expressions have been evaluated, and the one expression
\* that differs from the others is the oldest that the history still holds.
C4_OldestKeptIsTheOther ==
    /\ Len(log) > HistoryCap
    /\ Len(history) = HistoryCap
    /\ log[Len(log) - HistoryCap + 1].expr # Base
    /\ history[1] = log[Len(log) - HistoryCap + 1].item

----------------------------------------------------------------------------
(* C5: a failed evaluation changes nothing *)

\* C5: a step of evaluate in which eval raises, or in which the trimmed
\* field is empty, leaves the field, the history and the history list as
\* they were.
C5_FailedEvaluateChangesNothing ==
    [][(last_op' = "evaluate" /\ result'.st # "ok")
          => UNCHANGED <<var, history, history_list>>]_vars

\* C5: evaluate has failed with a field that is not empty and a history that
\* is not empty.
C5_FailedWithHistory ==
    /\ Evaluates /\ result.st = "raise"
    /\ dialog.title \in {"Math Error", "Input Error"}
    /\ var # <<>> /\ history # <<>> /\ history_list = history

=============================================================================
